---------------------------- MODULE Spec2Model ----------------------------
(***************************************************************************)
(* WhatsApp Business Profile Manager (src/worker.js).                      *)
(*                                                                         *)
(* Two state machines are modelled:                                        *)
(*   - the worker's fetch handler (GET /api/profile, POST /api/profile,    *)
(*     POST /api/photo), one request per run, with every outbound call to  *)
(*     the remote service split at its await into a start and a return;    *)
(*   - the page script (state, form fields, website pills, computeChanges, *)
(*     Save), driven by UI events.                                         *)
(*                                                                         *)
(* Text is a sequence of tokens (a token is a character or an opaque run   *)
(* of characters), so that trim, join and percent-encoding are computed.   *)
(* A JSON value is a record [t, s, a]: its type tag, its text when it is a *)
(* string, its elements when it is an array of strings.                    *)
(***************************************************************************)
EXTENDS Integers, Sequences, FiniteSets, TLC

\* ------------------------------------------------------------------ bounds
\* Largest uploaded file, in bytes.
MaxFileLen == 1
\* Most keys present in the JSON body of a POST /api/profile request.
MaxBodyKeys == 2
\* Most scalar fields the remote profile holds a value for.
MaxProfileKeys == 1
\* Most edits of the form and clicks on Upload & Apply in one behaviour.
MaxEdits == 2
\* Longest websites array the remote service or a request body carries.
MaxSites == 3

\* ------------------------------------------------------------- JSON values
Undefined == [t |-> "undefined", s |-> <<>>, a |-> <<>>]
Null == [t |-> "null", s |-> <<>>, a |-> <<>>]
Str(s) == [t |-> "string", s |-> s, a |-> <<>>]
Arr(a) == [t |-> "array", s |-> <<>>, a |-> a]
\* A non-zero number (its magnitude is never read).
Num == [t |-> "number", s |-> <<>>, a |-> <<>>]

\* JavaScript truthiness: what `!v`, `a || b` and `a && b` test.
Truthy(v) ==
    CASE v.t = "undefined" -> FALSE
      [] v.t = "null" -> FALSE
      [] v.t = "string" -> Len(v.s) > 0
      [] OTHER -> TRUE

\* a || b
JsOr(a, b) == IF Truthy(a) THEN a ELSE b

\* -------------------------------------------------------------------- text
IsSpace(c) == c = " "

RECURSIVE TrimStart(_)
TrimStart(s) ==
    IF Len(s) > 0 /\ IsSpace(Head(s)) THEN TrimStart(Tail(s)) ELSE s

RECURSIVE TrimEnd(_)
TrimEnd(s) ==
    IF Len(s) > 0 /\ IsSpace(s[Len(s)])
    THEN TrimEnd(SubSeq(s, 1, Len(s) - 1))
    ELSE s

\* String.prototype.trim
Trim(s) == TrimEnd(TrimStart(s))

\* The characters encodeURIComponent escapes, among the tokens used here.
Escaped ==
    (" " :> "%20") @@ (":" :> "%3A") @@ ("/" :> "%2F")
    @@ ("?" :> "%3F") @@ ("=" :> "%3D") @@ ("," :> "%2C")

\* encodeURIComponent, token by token.
EncodeURIComponent(s) ==
    [i \in 1..Len(s) |-> IF s[i] \in DOMAIN Escaped THEN Escaped[s[i]] ELSE s[i]]

\* Array.prototype.slice(0, n)
Slice(a, n) == SubSeq(a, 1, IF Len(a) < n THEN Len(a) ELSE n)

\* Array.prototype.join(", ")
RECURSIVE Join(_)
Join(a) ==
    IF Len(a) = 0 THEN <<>>
    ELSE IF Len(a) = 1 THEN a[1]
    ELSE a[1] \o <<",", " ">> \o Join(Tail(a))

\* new URL(s): the parsed protocol, or "invalid" when the constructor throws.
\* Leading and trailing whitespace is stripped; the scheme is lower-cased.
UrlProtocol(s) ==
    LET u == Trim(s) IN
    IF Len(u) < 2 THEN "invalid"
    ELSE CASE u[1] \in {"https:", "HTTPS:"} -> "https:"
           [] u[1] \in {"http:"} -> "http:"
           [] OTHER -> "invalid"

\* String.prototype.toLowerCase on the media types used here.
ToLowerCase(m) ==
    CASE m = "IMAGE/PNG" -> "image/png"
      [] m = "Image/Jpeg" -> "image/jpeg"
      [] OTHER -> m

\* ----------------------------------------------------------------- worker
GRAPH == <<"https:", "//graph.facebook.com/", "v23.0">>

allowedTypes == {"image/jpeg", "image/jpg", "image/png"}

\* Response.ok
RespOk(status) == status >= 200 /\ status <= 299

ScalarKeys == <<"about", "description", "address", "email", "vertical">>
\* A slip: the key list of the copy loop lacks vertical.
PostKeysNoVertical == <<"about", "description", "address", "email", "profile_picture_handle">>
PostKeys == ScalarKeys \o <<"profile_picture_handle">>
ScalarKeySet == {ScalarKeys[i] : i \in DOMAIN ScalarKeys}
PostKeySet == {PostKeys[i] : i \in DOMAIN PostKeys}
BodyKeySet == PostKeySet \cup {"websites"}


\* The worker's state: where the handler is suspended, the request's headers,
\* the env.APP_ID the call was given, every outbound fetch in the order started, the fetches not yet
\* returned, the handler's locals and the Response returned.
\* wrets is the status each fetch returned, in the order returned (0: the fetch
\* rejected).
VARIABLES wpc, wreq, wenv, wcalls, winflight, wrets, wloc, wres

wvars == <<wpc, wreq, wenv, wcalls, winflight, wrets, wloc, wres>>

\* The page script's state.
\* state, pendingPayload and the overlay are the script's variables; form is
\* the value of the five text inputs, inputs the value of #phoneId and #token,
\* editing whether enableEditing(true) has run, unet the fetches of the page
\* whose answer has not arrived, typed the count of the user's events so far
\* and, in typed.owner, the credentials the load that set the baseline was
\* sent with.
\* overlay.sent counts the updates sent since the dialog was last opened.
VARIABLES state, form, inputs, editing, pendingPayload, overlay, unet, typed

uvars == <<state, form, inputs, editing, pendingPayload, overlay, unet, typed>>

vars == <<wvars, uvars>>

\* ---- inputs of the worker
NoText == <<>>
Tokens == {Null, Str(NoText), Str(<<"EAAG">>)}
PhoneIds == {Null, Str(NoText), Str(<<"1555">>), Str(<<"15", "/", "55">>)}
AppIds == {Undefined, Str(NoText), Str(<<" ">>), Str(<<"app", ":", "1">>)}
ContentTypes ==
    {"", "application/json", "multipart/form-data; boundary=x",
     "Multipart/Form-Data; boundary=x"}
Mimes ==
    {"", "image/jpeg", "image/jpg", "image/png", "IMAGE/PNG", "image/gif",
     "text/html"}
FileLens == 0..MaxFileLen
ImageUrls ==
    {Undefined, Null, Num, Str(NoText), Str(<<"not a url">>),
     Str(<<"http:", "//a.com/p.png">>), Str(<<"https:", "//a.com/p.png">>),
     Str(<<"HTTPS:", "//a.com/p.png">>)}
RemoteStatuses == {200, 201, 401}

\* form.get("file"): absent, a string field, or a File with a type and bytes;
\* "malformed" is a body request.formData() rejects.
Files ==
    {[kind |-> k, type |-> "", len |-> 0] : k \in {"missing", "string", "malformed"}}
    \cup [kind : {"file"}, type : Mimes, len : FileLens]

NoFile == [kind |-> "unread", type |-> "", len |-> 0]

\* The request as the handler reads it: method, path and the headers read.
Request(method, path, token, phoneId, ct) ==
    [method |-> method, path |-> path, token |-> token, phoneId |-> phoneId, ct |-> ct]

NoRequest ==
    [method |-> "", path |-> "", token |-> Null, phoneId |-> Null, ct |-> ""]

\* ---- remote bodies
\* An array of objects, given by the text of each element's `h`.
ObjArr(hs) == [t |-> "objarray", s |-> NoText, a |-> hs]
\* An object, given by the text of its `handle` property (empty: none).
Obj(handle) == [t |-> "object", s |-> handle, a |-> <<>>]

\* What the remote service answers: a JSON object, text that is not JSON, or
\* the JSON value null.
CreateBodies ==
    {[kind |-> k, id |-> Undefined] : k \in {"unparsable", "null"}}
    \cup
    [kind : {"object"},
     id : {Undefined, Num, Str(NoText),
           Str(<<"upload", ":", "MTph", "?", "sig", "=", "ARZ">>)}]
BytesBodies ==
    {[kind |-> k, h |-> Undefined, handle |-> Undefined, data |-> Undefined,
      profile_picture_handle |-> Undefined] : k \in {"unparsable", "null"}}
    \cup
    [kind : {"object"},
     h : {Undefined, Str(NoText), Str(<<"h1">>)},
     handle : {Undefined, Str(<<"h2">>)},
     data : {Undefined, ObjArr(<<>>), ObjArr(<<<<"h3">>>>), Obj(<<"h4">>), Obj(NoText)},
     profile_picture_handle : {Undefined, Str(<<"h5">>)}]
AckBodies ==
    {[kind |-> k, success |-> Undefined] : k \in {"unparsable", "null"}}
    \cup [kind : {"object"}, success : {Undefined, Num}]

NoBody == [kind |-> "none"]

\* A slip: the catch answers null instead of {}.
safeJsonNull(body, empty) ==
    IF body.kind = "unparsable" THEN [body EXCEPT !.kind = "null"] ELSE body

\* async function safeJson(resp): a body that does not parse becomes {}.
safeJson(body, empty) == IF body.kind = "unparsable" THEN empty ELSE body

EmptyCreate == [kind |-> "object", id |-> Undefined]
EmptyBytes ==
    [kind |-> "object", h |-> Undefined, handle |-> Undefined,
     data |-> Undefined, profile_picture_handle |-> Undefined]
EmptyAck == [kind |-> "object", success |-> Undefined]

\* ---- the Response the worker returns: json(obj, status)
NoResponse ==
    [status |-> 0, step |-> "none", error |-> "none", rstatus |-> 0,
     remote |-> NoBody, data |-> NoBody, upload_id |-> Undefined,
     handle |-> Undefined]

\* json({ error: msg }, status)
ErrorResponse(msg, status) == [NoResponse EXCEPT !.status = status, !.error = msg]

\* json({ step, error: <remote body or message>, ... }, status)
StepResponse(step, msg, body, status) ==
    [NoResponse EXCEPT !.status = status, !.step = step, !.error = msg,
                       !.remote = body]

NoLocals ==
    [file |-> NoFile, imageUrl |-> Undefined, ctype |-> "", mime |-> "",
     fileLength |-> 0, rawId |-> Undefined, handle |-> Undefined, bodyIn |-> NoBody]

NoCall ==
    [kind |-> "none", url |-> NoText, auth |-> Null, len |-> 0, offset |-> "",
     payload |-> <<>>]

\* fetch(url, init): the call is appended and is in flight until it returns.
StartCall(c) ==
    /\ wcalls' = Append(wcalls, c)
    /\ winflight' = winflight \cup {Len(wcalls) + 1}
    /\ UNCHANGED wrets

\* The awaited fetch has returned with this status and no other is started.
EndCall(status) ==
    /\ winflight' = winflight \ {Len(wcalls)}
    /\ wrets' = Append(wrets, status)
    /\ UNCHANGED wcalls

\* A slip: the next fetch is started while the previous one is still counted
\* in flight (its promise is not awaited).
NextCallNoAwait(status, c) ==
    /\ wcalls' = Append(wcalls, c)
    /\ winflight' = winflight \cup {Len(wcalls) + 1}
    /\ wrets' = Append(wrets, status)

\* The awaited fetch has returned with this status and the next is started.
NextCall(status, c) ==
    /\ wcalls' = Append(wcalls, c)
    /\ winflight' = (winflight \ {Len(wcalls)}) \cup {Len(wcalls) + 1}
    /\ wrets' = Append(wrets, status)

\* No fetch is started and none returns.
NoCalls == UNCHANGED <<wcalls, winflight, wrets>>

\* return cors(json(...))
Respond(r) ==
    /\ wpc' = "done"
    /\ wres' = r

\* ---- guards of the handler
\* A slip: the two header tests joined by && instead of ||.
MissingCredsBoth(token, phoneId) == ~Truthy(token) /\ ~Truthy(phoneId)

\* A slip: every image type passes, as with the startsWith test alone.
TypeAllowedAnyImage(t) == t \in {"image/jpeg", "image/jpg", "image/png", "image/gif"}

\* A slip: plain http passes too.
IsHttpsOrHttp(s) == UrlProtocol(s) \in {"https:", "http:"}

\* if (!token || !phoneId)
MissingCreds(token, phoneId) == ~Truthy(token) \/ ~Truthy(phoneId)

\* if (!env.APP_ID)
AppIdMissing(appId) == ~Truthy(appId)

\* allowedTypes.includes(t)
TypeAllowed(t) == t \in allowedTypes

\* t.startsWith("image/")
StartsWithImage(t) == t \in {"image/jpeg", "image/jpg", "image/png", "image/gif"}

\* u.protocol === "https:"
IsHttps(s) == UrlProtocol(s) = "https:"

\* ct.includes("multipart/form-data")
IsMultipart(ct) == ToLowerCase(ct) = "multipart/form-data; boundary=x"

\* Step 1: POST ${GRAPH}/${encodeURIComponent(env.APP_ID)}/uploads?file_length=..&file_type=..
CreateCall(token, appId, fileLength, mime) ==
    [NoCall EXCEPT
       !.kind = "create_upload",
       !.url = GRAPH \o <<"/">> \o EncodeURIComponent(appId.s)
               \o <<"/uploads?file_length=", "#len", "&file_type=">>
               \o EncodeURIComponent(<<mime>>),
       !.auth = token,
       !.len = fileLength]

\* A slip: the session id is percent-encoded like the other ids.
BytesCallEncoded(token, rawId, fileLength) ==
    [NoCall EXCEPT
       !.kind = "upload_bytes",
       !.url = GRAPH \o <<"/">> \o EncodeURIComponent(rawId.s),
       !.auth = token,
       !.len = fileLength,
       !.offset = "0"]

\* Step 2: POST ${GRAPH}/${rawId} with the bytes at file_offset 0.
BytesCall(token, rawId, fileLength) ==
    [NoCall EXCEPT
       !.kind = "upload_bytes",
       !.url = GRAPH \o <<"/">> \o rawId.s,
       !.auth = token,
       !.len = fileLength,
       !.offset = "0"]

\* Step 3: POST ${GRAPH}/${encodeURIComponent(phoneId)}/whatsapp_business_profile
ApplyCall(token, phoneId, handle) ==
    [NoCall EXCEPT
       !.kind = "apply",
       !.url = GRAPH \o <<"/">> \o EncodeURIComponent(phoneId.s)
               \o <<"/whatsapp_business_profile">>,
       !.auth = token,
       !.payload = ("messaging_product" :> Str(<<"whatsapp">>))
                   @@ ("profile_picture_handle" :> handle)]

\* fetch(body.image_url)
ImageCall(imageUrl) ==
    [NoCall EXCEPT !.kind = "image_url", !.url = imageUrl.s]


\* ------------------------------------------------- POST /api/photo handler
\* An uncaught exception (a rejected fetch, a property read of null) ends the
\* run without a Response of the handler's.
Throw ==
    /\ wpc' = "threw"
    /\ wres' = NoResponse

\* A slip: a handle is made up when the answer holds none.
ExtractHandleDefault(bytesJson) ==
    IF Truthy(bytesJson.h) THEN bytesJson.h ELSE Str(<<"h0">>)

\* Extract handle (h): bytesJson.h || bytesJson.handle ||
\*   (bytesJson.data && (bytesJson.data[0]?.h || bytesJson.data.handle)) ||
\*   bytesJson.profile_picture_handle
DataFirstH(data) ==
    IF data.t = "objarray" /\ Len(data.a) > 0 THEN Str(data.a[1]) ELSE Undefined

DataHandle(data) ==
    IF data.t = "object" /\ Len(data.s) > 0 THEN Str(data.s) ELSE Undefined

\* A slip: handle is tried before h.
ExtractHandleHandleFirst(bytesJson) ==
    JsOr(JsOr(JsOr(bytesJson.handle, bytesJson.h),
              IF Truthy(bytesJson.data)
              THEN JsOr(DataFirstH(bytesJson.data), DataHandle(bytesJson.data))
              ELSE bytesJson.data),
         bytesJson.profile_picture_handle)

ExtractHandle(bytesJson) ==
    JsOr(JsOr(JsOr(bytesJson.h, bytesJson.handle),
              IF Truthy(bytesJson.data)
              THEN JsOr(DataFirstH(bytesJson.data), DataHandle(bytesJson.data))
              ELSE bytesJson.data),
         bytesJson.profile_picture_handle)

\* A slip: the status of the session-create answer is not tested.
CreateFailedNever(status) == FALSE

\* A slip: the status of the byte-upload answer is not tested.
BytesFailedNever(status) == FALSE

\* if (!rawId || typeof rawId !== "string")
BadRawId(rawId) == ~Truthy(rawId) \/ rawId.t # "string"

\* if (!create.ok)
CreateFailed(status) == ~RespOk(status)

\* if (!bytesResp.ok)
BytesFailed(status) == ~RespOk(status)

\* The request arrives; the handler runs to its first outbound fetch or to its
\* return. The multipart form or the JSON body is read when the code reads it.
PhotoHandler(req, appId, file, imageUrl) ==
    /\ wreq' = req
    /\ wenv' = appId
    /\ IF MissingCreds(req.token, req.phoneId)
       THEN /\ Respond(ErrorResponse("Missing x-wa-access-token or x-wa-phone-number-id", 400))
            /\ NoCalls /\ UNCHANGED wloc
       ELSE IF AppIdMissing(appId)
       THEN /\ Respond(ErrorResponse("APP_ID not configured in worker env", 400))
            /\ NoCalls /\ UNCHANGED wloc
       ELSE IF IsMultipart(req.ct)
       THEN CASE file.kind = "malformed" ->
                   /\ Throw
                   /\ NoCalls /\ UNCHANGED wloc
              [] file.kind \in {"missing", "string"} ->
                   /\ Respond(ErrorResponse("multipart/form-data must include a 'file' field", 400))
                   /\ NoCalls
                   /\ wloc' = [wloc EXCEPT !.file = file]
              [] OTHER ->
                   IF ~TypeAllowed(ToLowerCase(file.type))
                   THEN /\ Respond(ErrorResponse("Please upload a JPG or PNG image", 415))
                        /\ NoCalls
                        /\ wloc' = [wloc EXCEPT !.file = file]
                   ELSE /\ wloc' = [wloc EXCEPT !.file = file,
                                                !.mime = ToLowerCase(file.type),
                                                !.fileLength = file.len]
                        /\ StartCall(CreateCall(req.token, appId, file.len,
                                                ToLowerCase(file.type)))
                        /\ wpc' = "create"
                        /\ UNCHANGED wres
       ELSE IF ~Truthy(imageUrl)
       THEN /\ Respond(ErrorResponse("Send multipart 'file' OR JSON {image_url}", 400))
            /\ NoCalls
            /\ wloc' = [wloc EXCEPT !.imageUrl = imageUrl]
       ELSE IF imageUrl.t # "string" \/ UrlProtocol(imageUrl.s) = "invalid"
       THEN /\ Respond(ErrorResponse("Invalid image_url", 400))
            /\ NoCalls
            /\ wloc' = [wloc EXCEPT !.imageUrl = imageUrl]
       ELSE IF ~IsHttps(imageUrl.s)
       THEN /\ Respond(ErrorResponse("image_url must be https", 400))
            /\ NoCalls
            /\ wloc' = [wloc EXCEPT !.imageUrl = imageUrl]
       ELSE /\ StartCall(ImageCall(imageUrl))
            /\ wpc' = "image_url"
            /\ wloc' = [wloc EXCEPT !.imageUrl = imageUrl]
            /\ UNCHANGED wres

PhotoRequest ==
    /\ wpc = "idle"
    /\ UNCHANGED uvars
    /\ \E token \in Tokens, phoneId \in PhoneIds, ct \in ContentTypes, appId \in AppIds,
          file \in Files, imageUrl \in ImageUrls :
         PhotoHandler(Request("POST", "/api/photo", token, phoneId, ct), appId, file, imageUrl)

\* const r = await fetch(body.image_url) has returned.
AfterImage(status, ctype, len) ==
    /\ UNCHANGED <<wreq, wenv>>
    /\ IF ~RespOk(status)
       THEN /\ Respond(ErrorResponse("Failed to fetch image_url", 400))
            /\ EndCall(status)
            /\ UNCHANGED wloc
       ELSE IF ~StartsWithImage(ToLowerCase(ctype)) \/ ~TypeAllowed(ToLowerCase(ctype))
       THEN /\ Respond(ErrorResponse("Please use JPG or PNG", 415))
            /\ EndCall(status)
            /\ wloc' = [wloc EXCEPT !.ctype = ctype]
       ELSE /\ wloc' = [wloc EXCEPT !.ctype = ctype, !.mime = ToLowerCase(ctype),
                                    !.fileLength = len]
            /\ NextCall(status, CreateCall(wreq.token, wenv, len, ToLowerCase(ctype)))
            /\ wpc' = "create"
            /\ UNCHANGED wres

ImageFetched ==
    /\ wpc = "image_url"
    /\ UNCHANGED uvars
    /\ \E status \in RemoteStatuses, ctype \in Mimes, len \in FileLens :
         AfterImage(status, ctype, len)

\* const create = await fetch(.../uploads...) has returned.
AfterCreate(status, body) ==
    /\ UNCHANGED <<wreq, wenv>>
    /\ LET createJson == safeJson(body, EmptyCreate) IN
       IF CreateFailed(status)
       THEN /\ Respond(StepResponse("create_upload", "remote", createJson, status))
            /\ EndCall(status)
            /\ UNCHANGED wloc
       ELSE IF createJson.kind = "null"
       THEN /\ Throw
            /\ EndCall(status)
            /\ UNCHANGED wloc
       ELSE IF BadRawId(createJson.id)
       THEN /\ Respond(StepResponse("create_upload", "No id (UPLOAD_ID) in response",
                                    createJson, 502))
            /\ EndCall(status)
            /\ UNCHANGED wloc
       ELSE /\ wloc' = [wloc EXCEPT !.rawId = createJson.id]
            /\ NextCall(status, BytesCall(wreq.token, createJson.id, wloc.fileLength))
            /\ wpc' = "upload_bytes"
            /\ UNCHANGED wres

CreateReturned ==
    /\ wpc = "create"
    /\ UNCHANGED uvars
    /\ \E status \in RemoteStatuses, body \in CreateBodies : AfterCreate(status, body)

\* const bytesResp = await fetch(step2Url, ...) has returned.
AfterBytes(status, body) ==
    /\ UNCHANGED <<wreq, wenv>>
    /\ LET bytesJson == safeJson(body, EmptyBytes) IN
       IF BytesFailed(status)
       THEN /\ Respond(StepResponse("upload_bytes", "remote", bytesJson, status))
            /\ EndCall(status)
            /\ UNCHANGED wloc
       ELSE IF bytesJson.kind = "null"
       THEN /\ Throw
            /\ EndCall(status)
            /\ UNCHANGED wloc
       ELSE IF ~Truthy(ExtractHandle(bytesJson))
       THEN /\ Respond(StepResponse("upload_bytes", "No handle (h) in response",
                                    bytesJson, 502))
            /\ EndCall(status)
            /\ UNCHANGED wloc
       ELSE /\ wloc' = [wloc EXCEPT !.handle = ExtractHandle(bytesJson)]
            /\ NextCall(status, ApplyCall(wreq.token, wreq.phoneId, ExtractHandle(bytesJson)))
            /\ wpc' = "apply"
            /\ UNCHANGED wres

BytesReturned ==
    /\ wpc = "upload_bytes"
    /\ UNCHANGED uvars
    /\ \E status \in RemoteStatuses, body \in BytesBodies : AfterBytes(status, body)

\* json({ status: apply.status, upload_id: rawId, handle, apply: applyJson },
\*      apply.ok ? 200 : apply.status)
ApplyResponse(status, applyJson, rawId, handle) ==
    [NoResponse EXCEPT
       !.status = IF RespOk(status) THEN 200 ELSE status,
       !.rstatus = status,
       !.remote = applyJson,
       !.upload_id = rawId,
       !.handle = handle]

\* const apply = await fetch(.../whatsapp_business_profile, ...) has returned.
AfterApply(status, body) ==
    /\ UNCHANGED <<wreq, wenv, wloc>>
    /\ EndCall(status)
    /\ Respond(ApplyResponse(status, safeJson(body, EmptyAck), wloc.rawId, wloc.handle))

ApplyReturned ==
    /\ wpc = "apply"
    /\ UNCHANGED uvars
    /\ \E status \in RemoteStatuses, body \in AckBodies : AfterApply(status, body)

\* An awaited fetch rejects (the network fails): the exception is not caught.
FetchRejected ==
    /\ wpc \in {"image_url", "create", "upload_bytes", "apply", "get_profile", "post_profile"}
    /\ Throw
    /\ EndCall(0)
    /\ UNCHANGED <<wreq, wenv, wloc>>
    /\ UNCHANGED uvars


\* ----------------------------------------------- POST /api/profile handler
Texts == {NoText, <<" ">>, <<"a">>, <<" ", "a">>, <<"b">>}
Sites == {<<"https:", "//a.com">>, <<"http:", "//b.com">>}

\* Every sequence over S of length at most n.
RECURSIVE SeqsUpTo(_, _)
SeqsUpTo(S, n) ==
    IF n = 0 THEN {<<>>}
    ELSE LET shorter == SeqsUpTo(S, n - 1) IN
         shorter \cup {Append(q, x) : q \in {r \in shorter : Len(r) = n - 1}, x \in S}

SiteArrays == {Arr(q) : q \in SeqsUpTo(Sites, MaxSites)}

\* What a JSON body may hold under a scalar key and under "websites".
ScalarVals == {Null, Num, Arr(<<>>)} \cup {Str(t) : t \in Texts}
SiteVals == {Null, Str(<<"https:", "//a.com">>)} \cup SiteArrays
ValsOf(k) == IF k = "websites" THEN SiteVals ELSE ScalarVals

\* The JSON objects over the keys K with at most n keys present; an absent
\* key reads as undefined.
ObjectsOver(K, n) ==
    UNION {
      {[k \in K |-> IF k \in S THEN g[k] ELSE Undefined] :
         g \in {h \in [S -> ScalarVals \cup SiteVals] : \A k \in S : h[k] \in ValsOf(k)}}
      : S \in {T \in SUBSET K : Cardinality(T) <= n}}

EmptyObject == [k \in BodyKeySet |-> Undefined]

\* The body of a POST /api/profile request as received.
ProfileBodies ==
    {[kind |-> k, f |-> EmptyObject] : k \in {"unparsable", "null"}}
    \cup {[kind |-> "object", f |-> f] : f \in ObjectsOver(BodyKeySet, MaxBodyKeys)}

\* async function safeBody(req): a body that does not parse becomes {}.
safeBody(body) ==
    IF body.kind = "unparsable" THEN [kind |-> "object", f |-> EmptyObject] ELSE body

\* A slip: a string is tested without trimming.
includeIfValueNoTrim(v) ==
    CASE v.t \in {"undefined", "null"} -> FALSE
      [] v.t \in {"array", "objarray"} -> Len(v.a) > 0
      [] v.t = "string" -> Len(v.s) > 0
      [] OTHER -> TRUE

\* const includeIfValue = (v) => ...
includeIfValue(v) ==
    CASE v.t \in {"undefined", "null"} -> FALSE
      [] v.t \in {"array", "objarray"} -> Len(v.a) > 0
      [] v.t = "string" -> Len(Trim(v.s)) > 0
      [] OTHER -> TRUE

\* for (const key of [...]) if (includeIfValue(bodyIn[key])) payload[key] = bodyIn[key];
RECURSIVE CopyKeys(_, _, _)
CopyKeys(payload, bodyIn, keys) ==
    IF Len(keys) = 0 THEN payload
    ELSE CopyKeys(IF includeIfValue(bodyIn[Head(keys)])
                  THEN (Head(keys) :> bodyIn[Head(keys)]) @@ payload
                  ELSE payload,
                  bodyIn, Tail(keys))

\* A slip: the websites array is forwarded whole.
CopyWebsitesNoSlice(payload, bodyIn) ==
    IF bodyIn["websites"].t = "array" /\ Len(bodyIn["websites"].a) > 0
    THEN ("websites" :> bodyIn["websites"]) @@ payload
    ELSE payload

\* if (Array.isArray(bodyIn.websites) && bodyIn.websites.length > 0)
\*   payload.websites = bodyIn.websites.slice(0, 2);
CopyWebsites(payload, bodyIn) ==
    IF bodyIn["websites"].t = "array" /\ Len(bodyIn["websites"].a) > 0
    THEN ("websites" :> Arr(Slice(bodyIn["websites"].a, 2))) @@ payload
    ELSE payload

\* The payload the worker forwards for the parsed body bodyIn.
BuildPayload(bodyIn) ==
    CopyWebsites(CopyKeys("messaging_product" :> Str(<<"whatsapp">>), bodyIn, PostKeys),
                 bodyIn)

\* if (Object.keys(payload).length === 1)
PayloadEmpty(payload) == Cardinality(DOMAIN payload) = 1

\* POST ${GRAPH}/${encodeURIComponent(phoneId)}/whatsapp_business_profile
WriteCall(token, phoneId, payload) ==
    [NoCall EXCEPT
       !.kind = "post_profile",
       !.url = GRAPH \o <<"/">> \o EncodeURIComponent(phoneId.s)
               \o <<"/whatsapp_business_profile">>,
       !.auth = token,
       !.payload = payload]

PostProfileHandler(req, body) ==
    /\ wreq' = req
    /\ UNCHANGED wenv
    /\ IF MissingCreds(req.token, req.phoneId)
       THEN /\ Respond(ErrorResponse("Missing x-wa-access-token or x-wa-phone-number-id", 400))
            /\ NoCalls /\ UNCHANGED wloc
       ELSE LET bodyIn == safeBody(body) IN
            IF bodyIn.kind = "null"
            THEN /\ Throw
                 /\ wloc' = [wloc EXCEPT !.bodyIn = bodyIn]
                 /\ NoCalls
            ELSE IF PayloadEmpty(BuildPayload(bodyIn.f))
            THEN /\ Respond(ErrorResponse("No non-empty fields to update.", 400))
                 /\ wloc' = [wloc EXCEPT !.bodyIn = bodyIn]
                 /\ NoCalls
            ELSE /\ StartCall(WriteCall(req.token, req.phoneId, BuildPayload(bodyIn.f)))
                 /\ wloc' = [wloc EXCEPT !.bodyIn = bodyIn]
                 /\ wpc' = "post_profile"
                 /\ UNCHANGED wres

PostProfileRequest ==
    /\ wpc = "idle"
    /\ UNCHANGED uvars
    /\ \E token \in Tokens, phoneId \in PhoneIds, body \in ProfileBodies :
         PostProfileHandler(Request("POST", "/api/profile", token, phoneId, ""), body)

\* json({ status: resp.status, data }, resp.ok ? 200 : resp.status)
DataResponse(status, data) ==
    [NoResponse EXCEPT
       !.status = IF RespOk(status) THEN 200 ELSE status,
       !.rstatus = status,
       !.data = data]

\* A slip: a failed write is sent again.
AfterWriteRetry(status, body) ==
    /\ UNCHANGED <<wreq, wenv, wloc>>
    /\ IF RespOk(status)
       THEN /\ EndCall(status)
            /\ Respond(DataResponse(status, safeJson(body, EmptyAck)))
       ELSE /\ NextCall(status, wcalls[Len(wcalls)])
            /\ UNCHANGED <<wpc, wres>>

\* const resp = await fetch(...) of POST /api/profile has returned.
AfterWrite(status, body) ==
    /\ UNCHANGED <<wreq, wenv, wloc>>
    /\ EndCall(status)
    /\ Respond(DataResponse(status, safeJson(body, EmptyAck)))

WriteReturned ==
    /\ wpc = "post_profile"
    /\ UNCHANGED uvars
    /\ \E status \in RemoteStatuses, body \in AckBodies : AfterWrite(status, body)


\* ------------------------------------------------ GET /api/profile handler
ProfileKeySet == ScalarKeySet \cup {"websites", "profile_picture_url"}
PictureUrls == {Undefined, Str(<<"https:", "//cdn/p.jpg">>)}

\* The business profiles the remote service may hold: at most MaxProfileKeys
\* scalar fields with a value, any websites array, with or without a picture.
\* The text the page shows for an empty old value; the remote profile may
\* hold that very text.
EmptyMarker == <<"(empty)">>
ProfileTexts == Texts \cup {EmptyMarker}

ScalarParts ==
    UNION {
      {[k \in ScalarKeySet |-> IF k \in S THEN Str(g[k]) ELSE Undefined] :
         g \in [S -> ProfileTexts]}
      : S \in {T \in SUBSET ScalarKeySet : Cardinality(T) <= MaxProfileKeys}}

Profiles ==
    {[k \in ProfileKeySet |->
        IF k \in ScalarKeySet THEN sc[k]
        ELSE IF k = "websites" THEN w ELSE pic] :
       sc \in ScalarParts, w \in {Undefined} \cup SiteArrays, pic \in PictureUrls}

EmptyProfile == [k \in ProfileKeySet |-> Undefined]

\* The body of the remote answer to the profile read: {data:[{...}]},
\* {data:{...}}, {data:null}, the flat {...}, text that is not JSON, or null.
RawProfiles ==
    {[kind |-> k, hasData |-> FALSE, dataT |-> "none", elems |-> <<>>, f |-> EmptyProfile] :
       k \in {"unparsable", "null"}}
    \cup {[kind |-> "object", hasData |-> FALSE, dataT |-> "none", elems |-> <<>>, f |-> p] :
            p \in Profiles}
    \cup {[kind |-> "object", hasData |-> TRUE, dataT |-> "object", elems |-> <<>>, f |-> p] :
            p \in Profiles}
    \cup {[kind |-> "object", hasData |-> TRUE, dataT |-> "array", elems |-> <<p>>,
           f |-> EmptyProfile] : p \in Profiles}
    \cup {[kind |-> "object", hasData |-> TRUE, dataT |-> t, elems |-> <<>>,
           f |-> EmptyProfile] : t \in {"array", "null"}}

EmptyRaw ==
    [kind |-> "object", hasData |-> FALSE, dataT |-> "none", elems |-> <<>>,
     f |-> EmptyProfile]

\* Normalize: {data:[{...}]}, {data:{...}}, or {...}
\*   let data = raw; if (raw && typeof raw === "object" && "data" in raw) data = raw.data;
\*   if (Array.isArray(data)) data = data[0] || {};
Normalize(raw) ==
    IF raw.kind = "null" THEN [kind |-> "null", f |-> EmptyProfile]
    ELSE IF ~raw.hasData THEN [kind |-> "object", f |-> raw.f]
    ELSE CASE raw.dataT = "array" ->
                [kind |-> "object",
                 f |-> IF Len(raw.elems) > 0 THEN raw.elems[1] ELSE EmptyProfile]
           [] raw.dataT = "null" -> [kind |-> "null", f |-> EmptyProfile]
           [] OTHER -> [kind |-> "object", f |-> raw.f]

\* GET ${GRAPH}/${encodeURIComponent(phoneId)}/whatsapp_business_profile?fields=...
ReadCall(token, phoneId) ==
    [NoCall EXCEPT
       !.kind = "get_profile",
       !.url = GRAPH \o <<"/">> \o EncodeURIComponent(phoneId.s)
               \o <<"/whatsapp_business_profile?fields=">>
               \o EncodeURIComponent(<<"about", ",", "address", ",", "description", ",",
                                       "email", ",", "websites", ",", "vertical", ",",
                                       "profile_picture_url">>),
       !.auth = token]

GetProfileHandler(req) ==
    /\ wreq' = req
    /\ UNCHANGED <<wenv, wloc>>
    /\ IF MissingCreds(req.token, req.phoneId)
       THEN /\ Respond(ErrorResponse("Missing x-wa-access-token or x-wa-phone-number-id", 400))
            /\ NoCalls
       ELSE /\ StartCall(ReadCall(req.token, req.phoneId))
            /\ wpc' = "get_profile"
            /\ UNCHANGED wres

GetProfileRequest ==
    /\ wpc = "idle"
    /\ UNCHANGED uvars
    /\ \E token \in Tokens, phoneId \in PhoneIds :
         GetProfileHandler(Request("GET", "/api/profile", token, phoneId, ""))

\* json({ status: resp.status, data, raw }, resp.ok ? 200 : resp.status)
ReadResponse(status, raw) ==
    [DataResponse(status, Normalize(raw)) EXCEPT !.remote = raw]

\* const resp = await fetch(...) of GET /api/profile has returned.
AfterRead(status, body) ==
    /\ UNCHANGED <<wreq, wenv, wloc>>
    /\ EndCall(status)
    /\ Respond(ReadResponse(status, safeJson(body, EmptyRaw)))

ReadReturned ==
    /\ wpc = "get_profile"
    /\ UNCHANGED uvars
    /\ \E status \in RemoteStatuses, body \in RawProfiles : AfterRead(status, body)

\* ------------------------------------------------------- the page script
\* Most clicks on Load Profile that start a fetch in one behaviour.
MaxLoads == 2
\* Most times the credential inputs are retyped in one behaviour.
MaxCredEdits == 2
\* Most fetches of the page awaiting their answer at one time.
MaxInFlight == 2

\* What the user types into #phoneId and #token.
PhoneInputs == {NoText, <<" ", "1555">>}
\* A session in which the user logs in again has a second phone number id.
PhoneInputsOf(relogin) == IF relogin THEN PhoneInputs \cup {<<"1666">>} ELSE PhoneInputs
TokenInputs == {NoText, <<"EAAG">>}
\* What the user types into #wsNew or into the pill's prompt.
SiteInputs == Sites \cup {NoText, <<"not a url">>, <<" ", "https:", "//c.com">>}

\* The remote answers a page load may meet: the Cloud API's {data:[{...}]} and
\* the degenerate bodies.
UiSites ==
    {Undefined, Arr(<<>>), Arr(<<<<"https:", "//a.com">>>>),
     Arr(<<<<"https:", "//a.com">>, <<"http:", "//b.com">>>>),
     Arr(<<<<"https:", "//a.com">>, <<"http:", "//b.com">>, <<"https:", "//a.com">>>>)}
UiRaws ==
    {r \in RawProfiles :
       \/ r.kind # "object"
       \/ r.dataT = "array" /\ r.elems = <<>>
       \/ /\ r.dataT = "array" /\ Len(r.elems) = 1
          /\ r.elems[1]["profile_picture_url"] # Undefined
          /\ r.elems[1]["websites"] \in UiSites}

\* The answers explored in a session in which the user logs in again.
ReloginRaws ==
    {r \in UiRaws :
       /\ r.kind = "object" /\ Len(r.elems) = 1
       /\ r.elems[1]["about"] \in {Undefined, Str(<<"a">>)}
       /\ \A k \in ScalarKeySet \ {"about"} : r.elems[1][k] = Undefined
       /\ r.elems[1]["websites"] \in {Undefined, Arr(<<<<"https:", "//a.com">>>>)}}

\* The value an <input> reports after the browser's value sanitization:
\* type="email" strips leading and trailing whitespace, type="text" and
\* <textarea> keep it.
InputValue(k, v) == IF k = "email" THEN Trim(v) ELSE v

\* The user's events explored in one behaviour, by the kind of session: one
\* in which the credentials are typed once and the form is edited, or one in
\* which the user logs in again (typed.relogin) and edits less.
Budget ==
    IF typed.relogin
    THEN [form |-> MaxEdits - 1, creds |-> MaxCredEdits, loads |-> MaxLoads]
    ELSE [form |-> MaxEdits, creds |-> MaxCredEdits - 1, loads |-> MaxLoads - 1]

\* The open overlay (position: fixed; inset: 0) covers the page's controls.
PageReachable == ~overlay.open

\* A slip: the dialog is hidden and the pending payload is kept.
closeConfirmKeepsPayload ==
    /\ overlay' = [open |-> FALSE, list |-> <<>>, sent |-> 0]
    /\ UNCHANGED pendingPayload

\* function closeConfirm()
closeConfirm ==
    /\ overlay' = [open |-> FALSE, list |-> <<>>, sent |-> 0]
    /\ pendingPayload' = Null

\* The user types into #phoneId and #token; the first typing opens a session
\* of one of the two kinds.
TypeCreds(phoneId, token, relogin) ==
    /\ UNCHANGED wvars
    /\ PageReachable
    /\ typed.creds < Budget.creds
    /\ typed.creds > 0 => relogin = typed.relogin
    /\ inputs' = [phoneId |-> phoneId, token |-> token]
    /\ typed' = [typed EXCEPT !.creds = @ + 1, !.relogin = relogin]
    /\ UNCHANGED <<state, form, editing, pendingPayload, overlay, unet>>

\* $("btnLoad").onclick, to the fetch.
BtnLoad ==
    /\ UNCHANGED wvars
    /\ PageReachable
    /\ state' = [state EXCEPT !.phoneId = Trim(inputs.phoneId), !.token = Trim(inputs.token)]
    /\ IF Len(Trim(inputs.phoneId)) = 0 \/ Len(Trim(inputs.token)) = 0
       THEN UNCHANGED <<unet, typed>>
       ELSE /\ typed.loads < Budget.loads
            /\ unet' = Append(unet, [kind |-> "load", phoneId |-> Trim(inputs.phoneId),
                                     token |-> Trim(inputs.token), body |-> Null])
            /\ typed' = [typed EXCEPT !.loads = @ + 1]
    /\ UNCHANGED <<form, inputs, editing, pendingPayload, overlay>>

\* The sequence q without its i-th element.
RemoveAt(q, i) == SubSeq(q, 1, i - 1) \o SubSeq(q, i + 1, Len(q))

\* var p = (o && o.data) ? o.data : o;  o is {status, data, raw}
LoadedProfile(o) == IF o.data.kind = "object" THEN o.data.f ELSE EmptyProfile

\* A slip: the baseline keeps every website the remote profile holds.
CurrentOfNoSlice(p) ==
    [k \in ProfileKeySet |->
       IF k = "websites"
       THEN IF p[k].t = "array" THEN Arr(p[k].a) ELSE Arr(<<>>)
       ELSE JsOr(p[k], Str(NoText))]

\* state.current = { about: p.about || "", ..., websites: Array.isArray(p.websites)
\*   ? p.websites.slice(0,2) : [], profile_picture_url: p.profile_picture_url || "" }
CurrentOf(p) ==
    [k \in ProfileKeySet |->
       IF k = "websites"
       THEN IF p[k].t = "array" THEN Arr(Slice(p[k].a, 2)) ELSE Arr(<<>>)
       ELSE JsOr(p[k], Str(NoText))]

\* The answer to the i-th pending load arrives: the .then of btnLoad.onclick.
LoadResponse(i, o) ==
    /\ UNCHANGED wvars
    /\ i \in DOMAIN unet /\ unet[i].kind = "load"
    /\ unet' = RemoveAt(unet, i)
    /\ IF ~RespOk(o.status)
       THEN UNCHANGED <<state, form, editing, typed>>
       ELSE LET current == CurrentOf(LoadedProfile(o)) IN
            /\ state' = [state EXCEPT !.current = current,
                                      !.websites = current["websites"].a,
                                      !.loaded = TRUE]
            /\ form' = [k \in ScalarKeySet |-> InputValue(k, current[k].s)]
            /\ editing' = TRUE
            /\ typed' = [typed EXCEPT !.owner = [phoneId |-> unet[i].phoneId,
                                                 token |-> unet[i].token]]
    /\ UNCHANGED <<inputs, pendingPayload, overlay>>

\* The fetch of the i-th pending load rejects: the .catch shows a toast.
LoadRejected(i) ==
    /\ UNCHANGED wvars
    /\ i \in DOMAIN unet /\ unet[i].kind = "load"
    /\ unet' = RemoveAt(unet, i)
    /\ UNCHANGED <<state, form, inputs, editing, pendingPayload, overlay, typed>>

\* The user types v into the enabled input k.
EditField(k, v) ==
    /\ UNCHANGED wvars
    /\ PageReachable /\ editing
    /\ typed.form < Budget.form
    /\ form' = [form EXCEPT ![k] = InputValue(k, v)]
    /\ typed' = [typed EXCEPT !.form = @ + 1]
    /\ UNCHANGED <<state, inputs, editing, pendingPayload, overlay, unet>>

\* $("wsAdd").onclick with v typed into #wsNew.
WsAdd(typedUrl) ==
    /\ UNCHANGED wvars
    /\ PageReachable /\ editing
    /\ typed.form < Budget.form
    /\ typed' = [typed EXCEPT !.form = @ + 1]
    /\ LET v == Trim(typedUrl) IN
       IF \/ Len(v) = 0
          \/ UrlProtocol(v) = "invalid"
          \/ Len(state.websites) >= 2
          \/ \E i \in DOMAIN state.websites : state.websites[i] = v
       THEN UNCHANGED state
       ELSE state' = [state EXCEPT !.websites = Append(@, v)]
    /\ UNCHANGED <<form, inputs, editing, pendingPayload, overlay, unet>>

\* pill.onclick: prompt() returns v; state.websites[idx] = v.
PillEdit(idx, v) ==
    /\ UNCHANGED wvars
    /\ PageReachable
    /\ idx \in DOMAIN state.websites
    /\ typed.form < Budget.form
    /\ typed' = [typed EXCEPT !.form = @ + 1]
    /\ IF Len(v) = 0 \/ UrlProtocol(v) = "invalid"
       THEN UNCHANGED state
       ELSE state' = [state EXCEPT !.websites[idx] = v]
    /\ UNCHANGED <<form, inputs, editing, pendingPayload, overlay, unet>>

\* pill.onauxclick / shift-mousedown: state.websites.splice(idx, 1).
PillRemove(idx) ==
    /\ UNCHANGED wvars
    /\ PageReachable
    /\ idx \in DOMAIN state.websites
    /\ typed.form < Budget.form
    /\ typed' = [typed EXCEPT !.form = @ + 1]
    /\ state' = [state EXCEPT !.websites = RemoveAt(@, idx)]
    /\ UNCHANGED <<form, inputs, editing, pendingPayload, overlay, unet>>

\* A slip: every proposed value passes.
includeAlways(v) == TRUE

\* function include(v), on the trimmed text of an input.
include(v) == Len(Trim(v)) > 0

\* state.current[k] || ""
CurrentText(current, k) == IF Truthy(current[k]) THEN current[k].s ELSE NoText

\* A slip: the proposed value is not compared with the baseline.
RECURSIVE ScalarChangesNoCompare(_, _, _, _)
ScalarChangesNoCompare(res, proposed, current, keys) ==
    IF Len(keys) = 0 THEN res
    ELSE LET k == Head(keys) IN
         ScalarChangesNoCompare(
           IF include(proposed[k])
           THEN [changes |-> (k :> Str(proposed[k])) @@ res.changes,
                 list |-> Append(res.list,
                                 [key |-> k,
                                  old |-> IF Truthy(current[k]) THEN current[k].s
                                          ELSE EmptyMarker,
                                  val |-> proposed[k]])]
           ELSE res,
           proposed, current, Tail(keys))

\* The forEach over the scalar keys: changes and list after the keys given.
RECURSIVE ScalarChanges(_, _, _, _)
ScalarChanges(res, proposed, current, keys) ==
    IF Len(keys) = 0 THEN res
    ELSE LET k == Head(keys) IN
         ScalarChanges(
           IF include(proposed[k]) /\ proposed[k] # CurrentText(current, k)
           THEN [changes |-> (k :> Str(proposed[k])) @@ res.changes,
                 list |-> Append(res.list,
                                 [key |-> k,
                                  old |-> IF Truthy(current[k]) THEN current[k].s
                                          ELSE EmptyMarker,
                                  val |-> proposed[k]])]
           ELSE res,
           proposed, current, Tail(keys))

\* A slip: the websites step without its length test.
WebsiteChangesAllowEmpty(res, sites, current) ==
    LET oldWs == Join(IF Truthy(current["websites"]) THEN current["websites"].a ELSE <<>>)
        newWs == Join(sites)
    IN  IF newWs # oldWs
        THEN [changes |-> ("websites" :> Arr(sites)) @@ res.changes,
              list |-> Append(res.list,
                              [key |-> "websites",
                               old |-> IF Len(oldWs) > 0 THEN oldWs ELSE EmptyMarker,
                               val |-> newWs])]
        ELSE res

\* The websites step of computeChanges.
WebsiteChanges(res, sites, current) ==
    LET oldWs == Join(IF Truthy(current["websites"]) THEN current["websites"].a ELSE <<>>)
        newWs == Join(sites)
    IN  IF Len(sites) > 0 /\ newWs # oldWs
        THEN [changes |-> ("websites" :> Arr(sites)) @@ res.changes,
              list |-> Append(res.list,
                              [key |-> "websites",
                               old |-> IF Len(oldWs) > 0 THEN oldWs ELSE EmptyMarker,
                               val |-> newWs])]
        ELSE res

NoChanges == [changes |-> <<>>, list |-> <<>>]

\* A slip: the websites step runs before the scalar keys.
computeChangesWebsitesFirst(st, fm) ==
    IF ~st.loaded THEN NoChanges
    ELSE ScalarChanges(WebsiteChanges(NoChanges, Slice(st.websites, 2), st.current),
                       [k \in ScalarKeySet |-> Trim(fm[k])], st.current, ScalarKeys)

\* function computeChanges(), of the script's state st and the inputs' values fm.
computeChanges(st, fm) ==
    IF ~st.loaded THEN NoChanges
    ELSE WebsiteChanges(
           ScalarChanges(NoChanges, [k \in ScalarKeySet |-> Trim(fm[k])], st.current,
                         ScalarKeys),
           Slice(st.websites, 2), st.current)

\* $("btnSave").onclick
BtnSave ==
    /\ UNCHANGED wvars
    /\ PageReachable /\ editing
    /\ LET res == computeChanges(state, form) IN
       IF ~state.loaded \/ Len(res.list) = 0
       THEN UNCHANGED <<pendingPayload, overlay>>
       ELSE /\ pendingPayload' = res.changes
            /\ overlay' = [open |-> TRUE, list |-> res.list, sent |-> 0]
    /\ UNCHANGED <<state, form, inputs, editing, unet, typed>>

\* $("mCancel").onclick, and the Escape key.
MCancel ==
    /\ UNCHANGED wvars
    /\ overlay.open
    /\ closeConfirm
    /\ UNCHANGED <<state, form, inputs, editing, unet, typed>>

\* Object.assign(target, src): the own properties of src are written over
\* target's; a null or undefined src has none.
ObjectAssign(target, src) ==
    IF src \in {Null, Undefined} THEN target
    ELSE [k \in DOMAIN target \cup DOMAIN src |->
            IF k \in DOMAIN src THEN src[k] ELSE target[k]]

\* body: JSON.stringify(obj) as the worker's req.json() reads it back: the
\* own properties of obj, absent keys reading as undefined.
JsonBody(obj) ==
    [kind |-> "object",
     f |-> [k \in BodyKeySet |-> IF k \in DOMAIN obj THEN obj[k] ELSE Undefined]]

\* $("mConfirm").onclick, to the fetch. The handler tests pendingPayload
\* itself, so the click is taken whether or not the dialog shows.
MConfirm ==
    /\ UNCHANGED wvars
    /\ IF pendingPayload = Null
       THEN /\ closeConfirm
            /\ UNCHANGED unet
       ELSE /\ Len(unet) < MaxInFlight
            /\ unet' = Append(unet, [kind |-> "save", phoneId |-> state.phoneId,
                                     token |-> state.token, body |-> pendingPayload])
            /\ overlay' = [overlay EXCEPT !.sent = @ + 1]
            /\ UNCHANGED pendingPayload
    /\ UNCHANGED <<state, form, inputs, editing, typed>>

\* The answer to the i-th pending update arrives: the .then of
\* mConfirm.onclick. closeConfirm() runs first, Object.assign after it.
SaveResponse(i, status) ==
    /\ UNCHANGED wvars
    /\ i \in DOMAIN unet /\ unet[i].kind = "save"
    /\ unet' = RemoveAt(unet, i)
    /\ closeConfirm
    /\ IF ~RespOk(status)
       THEN UNCHANGED state
       ELSE state' = [state EXCEPT !.current = ObjectAssign(@, pendingPayload')]
    /\ UNCHANGED <<form, inputs, editing, typed>>

\* The fetch of the i-th pending update rejects: the .catch closes the dialog.
SaveRejected(i) ==
    /\ UNCHANGED wvars
    /\ i \in DOMAIN unet /\ unet[i].kind = "save"
    /\ unet' = RemoveAt(unet, i)
    /\ closeConfirm
    /\ UNCHANGED <<state, form, inputs, editing, typed>>

\* btnPhoto's click listener with a file chosen in #file (hasFile) and url
\* typed into #imgUrl, to the fetch.
\* A slip: the button is enabled from the start and the handler does not
\* test state.loaded.
BtnPhotoUnguarded(hasFile, url) ==
    /\ UNCHANGED wvars
    /\ PageReachable
    /\ IF (~hasFile /\ Len(Trim(url)) = 0)
          \/ (~hasFile /\ UrlProtocol(Trim(url)) = "invalid")
       THEN UNCHANGED <<unet, typed>>
       ELSE /\ typed.form < Budget.form /\ Len(unet) < MaxInFlight
            /\ unet' = Append(unet,
                   [kind |-> "photo", phoneId |-> state.phoneId, token |-> state.token,
                    body |-> IF hasFile THEN [file |-> TRUE, image_url |-> Undefined]
                             ELSE [file |-> FALSE, image_url |-> Str(Trim(url))]])
            /\ typed' = [typed EXCEPT !.form = @ + 1]
    /\ UNCHANGED <<state, form, inputs, editing, pendingPayload, overlay>>

BtnPhoto(hasFile, url) ==
    /\ UNCHANGED wvars
    /\ PageReachable /\ editing
    /\ IF ~state.loaded \/ (~hasFile /\ Len(Trim(url)) = 0)
          \/ (~hasFile /\ UrlProtocol(Trim(url)) = "invalid")
       THEN UNCHANGED <<unet, typed>>
       ELSE /\ typed.form < Budget.form /\ Len(unet) < MaxInFlight
            /\ unet' = Append(unet,
                   [kind |-> "photo", phoneId |-> state.phoneId, token |-> state.token,
                    body |-> IF hasFile THEN [file |-> TRUE, image_url |-> Undefined]
                             ELSE [file |-> FALSE, image_url |-> Str(Trim(url))]])
            /\ typed' = [typed EXCEPT !.form = @ + 1]
    /\ UNCHANGED <<state, form, inputs, editing, pendingPayload, overlay>>

\* The i-th pending photo request is answered or rejects: a toast either way.
PhotoDone(i) ==
    /\ UNCHANGED wvars
    /\ i \in DOMAIN unet /\ unet[i].kind = "photo"
    /\ unet' = RemoveAt(unet, i)
    /\ UNCHANGED <<state, form, inputs, editing, pendingPayload, overlay, typed>>

\* What the user types into #imgUrl.
PhotoUrls == {NoText, <<"not a url">>, <<" ", "https:", "//a.com/p.png">>}

\* The pending fetches of the page of one kind, by their place in unet.
Pending(kind) == {i \in DOMAIN unet : unet[i].kind = kind}

\* The remote answers a load of this session may meet.
LoadAnswers == IF typed.relogin THEN ReloginRaws ELSE UiRaws

UiInit ==
    /\ state = [phoneId |-> NoText, token |-> NoText, websites |-> <<>>,
                loaded |-> FALSE, current |-> EmptyProfile]
    /\ form = [k \in ScalarKeySet |-> NoText]
    /\ inputs = [phoneId |-> NoText, token |-> NoText]
    /\ editing = FALSE
    /\ pendingPayload = Null
    /\ overlay = [open |-> FALSE, list |-> <<>>, sent |-> 0]
    /\ unet = <<>>
    /\ typed = [form |-> 0, creds |-> 0, loads |-> 0, relogin |-> FALSE,
                owner |-> [phoneId |-> NoText, token |-> NoText]]

UiNext ==
    \/ \E relogin \in BOOLEAN :
         \E phoneId \in PhoneInputsOf(relogin), token \in TokenInputs :
           TypeCreds(phoneId, token, relogin)
    \/ BtnLoad
    \/ \E i \in Pending("load"), status \in RemoteStatuses, raw \in LoadAnswers :
         LoadResponse(i, ReadResponse(status, raw))
    \/ \E i \in Pending("load") : LoadRejected(i)
    \/ \E k \in ScalarKeySet, v \in Texts : EditField(k, v)
    \/ \E v \in SiteInputs : WsAdd(v)
    \/ \E idx \in DOMAIN state.websites, v \in SiteInputs : PillEdit(idx, v)
    \/ \E idx \in DOMAIN state.websites : PillRemove(idx)
    \/ BtnSave
    \/ MCancel
    \/ MConfirm
    \/ \E i \in Pending("save"), status \in RemoteStatuses : SaveResponse(i, status)
    \/ \E i \in Pending("save") : SaveRejected(i)
    \/ \E hasFile \in BOOLEAN, url \in PhotoUrls : BtnPhoto(hasFile, url)
    \/ \E i \in Pending("photo") : PhotoDone(i)

\* ------------------------------------------------------ the worker's runs
WorkerInit ==
    /\ wpc = "idle"
    /\ wreq = NoRequest
    /\ wenv = Undefined
    /\ wcalls = <<>>
    /\ winflight = {}
    /\ wrets = <<>>
    /\ wloc = NoLocals
    /\ wres = NoResponse

WorkerNext ==
    \/ PhotoRequest
    \/ ImageFetched
    \/ CreateReturned
    \/ BytesReturned
    \/ ApplyReturned
    \/ PostProfileRequest
    \/ WriteReturned
    \/ GetProfileRequest
    \/ ReadReturned
    \/ FetchRejected

Init == WorkerInit /\ UiInit

\* One request handled by the worker.
Next == WorkerNext

Spec == Init /\ [][Next]_vars

\* The page, driven by the user's events and the answers to its fetches.
SpecUI == Init /\ [][UiNext]_vars

\* The page and the worker side by side, one of the two observed in a
\* behaviour: the worker serves a request while the page is as loaded, the
\* page runs while the worker is idle.
NextAll ==
    \/ UiInit /\ WorkerNext
    \/ wpc = "idle" /\ UiNext

SpecAll == Init /\ [][NextAll]_vars

\* ---------------------------------------------------------------- claims
PhotoRun == wreq.path = "/api/photo"
PostProfileRun == wreq.method = "POST" /\ wreq.path = "/api/profile"
Ended == wpc \in {"done", "threw"}
Is2xx(n) == n \in 200..299
Is4xx(n) == n \in 400..499
\* The run ended and did not answer with a success status.
RunFailed == wpc = "threw" \/ (wpc = "done" /\ ~Is2xx(wres.status))
RunSucceeded == wpc = "done" /\ Is2xx(wres.status)
CallCount(kind) == Cardinality({i \in DOMAIN wcalls : wcalls[i].kind = kind})
IsUploadCall(c) == c.kind \in {"create_upload", "upload_bytes", "apply"}
UploadKinds ==
    LET u == SelectSeq(wcalls, IsUploadCall) IN [i \in DOMAIN u |-> u[i].kind]
\* Fetch i has returned, and not with a success status.
ReturnedFailure(i) == i \in DOMAIN wrets /\ ~Is2xx(wrets[i])

\* C1: in a POST /api/photo run, once the session-create call has returned a
\* non-success response, the byte-upload and profile-apply calls have not been
\* made (call counts 0) and the run has ended in failure.
C1_CreateFailureEndsRun ==
    PhotoRun =>
      \A i \in DOMAIN wcalls :
        (wcalls[i].kind = "create_upload" /\ ReturnedFailure(i)) =>
          /\ CallCount("upload_bytes") = 0
          /\ CallCount("apply") = 0
          /\ RunFailed

C1_Witness ==
    /\ PhotoRun /\ wpc = "done"
    /\ CallCount("create_upload") = 1
    /\ wrets = <<401>>
    /\ wres.status = 401 /\ wres.step = "create_upload"

\* C2: in a POST /api/photo run, every fetch but the last started has returned
\* (at most one is in flight, and it is the last one started), and a run that
\* ends in success made exactly the calls session-create, byte-upload,
\* profile-apply, once each and in that order, all of them returned.
C2_SuccessIsThreeSequentialCalls ==
    PhotoRun =>
      /\ winflight \subseteq {Len(wcalls)}
      /\ Len(wrets) + Cardinality(winflight) = Len(wcalls)
      /\ RunSucceeded =>
           /\ UploadKinds = <<"create_upload", "upload_bytes", "apply">>
           /\ winflight = {}

C2_Witness ==
    /\ PhotoRun /\ RunSucceeded
    /\ Len(wcalls) = 4 /\ wcalls[1].kind = "image_url"
    /\ wrets = <<200, 201, 200, 201>>

\* C3: a step in which the byte-upload call returns a success status with the
\* body {} ends the run with a non-success Response tagged with the
\* upload_bytes step, with no profile-apply call made; and an ended run makes
\* no further call.
C3_EmptyBytesBodyIsFailure ==
    [][/\ (\E status \in {200, 201} : AfterBytes(status, EmptyBytes)) =>
            /\ wpc' = "done"
            /\ ~Is2xx(wres'.status)
            /\ wres'.step = "upload_bytes"
            /\ \A i \in DOMAIN wcalls' : wcalls'[i].kind # "apply"
       /\ Ended => wcalls' = wcalls]_vars

C3_Witness ==
    /\ PhotoRun /\ wpc = "done"
    /\ wres.status = 502 /\ wres.step = "upload_bytes"
    /\ wres.remote = EmptyBytes
    /\ UploadKinds = <<"create_upload", "upload_bytes">>
    /\ Is2xx(wrets[Len(wrets)])

\* C4: in a POST /api/photo run each of session-create, byte-upload and
\* profile-apply is called at most once; once byte-upload has returned
\* non-success the run has failed with no profile-apply call; once
\* profile-apply has returned non-success the run has failed and that call is
\* the last one made.
C4_NoRetry ==
    PhotoRun =>
      /\ \A k \in {"image_url", "create_upload", "upload_bytes", "apply"} : CallCount(k) <= 1
      /\ \A i \in DOMAIN wcalls :
           /\ (wcalls[i].kind = "upload_bytes" /\ ReturnedFailure(i)) =>
                RunFailed /\ CallCount("apply") = 0
           /\ (wcalls[i].kind = "apply" /\ ReturnedFailure(i)) =>
                RunFailed /\ i = Len(wcalls)

C4_Witness ==
    /\ PhotoRun /\ wpc = "done"
    /\ UploadKinds = <<"create_upload", "upload_bytes", "apply">>
    /\ wrets[Len(wrets)] = 401
    /\ wres.status = 401

SourceAccepted ==
    /\ wloc.imageUrl.t = "string"
    /\ Len(Trim(wloc.imageUrl.s)) >= 2
    /\ Trim(wloc.imageUrl.s)[1] \in {"https:", "HTTPS:"}
    /\ Len(wcalls) >= 1 /\ wcalls[1].kind = "image_url"
    /\ Len(wrets) >= 1 /\ Is2xx(wrets[1])
    /\ ToLowerCase(wloc.ctype) \in {"image/jpeg", "image/jpg", "image/png"}

C6_SessionOnlyForAcceptedSource ==
    (PhotoRun /\ ~IsMultipart(wreq.ct)) =>
      /\ CallCount("create_upload") > 0 => SourceAccepted
      /\ (Ended /\ ~SourceAccepted) =>
           /\ RunFailed
           /\ SelectSeq(wcalls, IsUploadCall) = <<>>

C6_Witness ==
    /\ PhotoRun /\ ~IsMultipart(wreq.ct)
    /\ wloc.imageUrl = Str(<<"https:", "//a.com/p.png">>)
    /\ wloc.ctype = "IMAGE/PNG"
    /\ CallCount("create_upload") = 1

IsBlank(v) ==
    \/ v.t \in {"undefined", "null"}
    \/ v.t = "string" /\ \A i \in DOMAIN v.s : v.s[i] = " "
    \/ v.t = "array" /\ v.a = <<>>

\* The keys of a request body that qualify for the update: a non-blank value
\* under a scalar key, a non-empty array under websites.
Qualifying(f) ==
    {k \in PostKeySet : ~IsBlank(f[k])}
    \cup {k \in {"websites"} : f[k].t = "array" /\ f[k].a # <<>>}

\* C8: POST /api/profile with valid credentials and a JSON object body in which
\* every candidate field is absent, null, an empty or whitespace-only string or
\* an empty array is answered 400 "No non-empty fields to update." and no
\* outbound call is made.
C8_EmptyChangeSetRejected ==
    (/\ PostProfileRun
     /\ wloc.bodyIn.kind = "object"
     /\ \A k \in BodyKeySet : IsBlank(wloc.bodyIn.f[k])) =>
      /\ wpc = "done"
      /\ wres.status = 400
      /\ wres.error = "No non-empty fields to update."
      /\ wcalls = <<>>

C8_Witness ==
    /\ PostProfileRun /\ wpc = "done"
    /\ wloc.bodyIn.kind = "object"
    /\ wloc.bodyIn.f["about"] = Str(<<" ">>)
    /\ wloc.bodyIn.f["websites"] = Arr(<<>>)
    /\ wres.status = 400 /\ wcalls = <<>>

\* The body the write call is to carry for the request body f: the qualifying
\* fields as received (websites cut to its first two entries) and
\* messaging_product = "whatsapp".
ExpectedPayload(f) ==
    [k \in Qualifying(f) \cup {"messaging_product"} |->
       IF k = "messaging_product" THEN Str(<<"whatsapp">>)
       ELSE IF k = "websites"
            THEN Arr(SubSeq(f[k].a, 1, IF Len(f[k].a) > 2 THEN 2 ELSE Len(f[k].a)))
            ELSE f[k]]

\* C9: POST /api/profile with valid credentials and at least one qualifying
\* field has made exactly one outbound call, the write, whose body is the
\* qualifying fields plus messaging_product = "whatsapp" and nothing else; no
\* second call is made whether the write succeeds, fails or rejects.
C9_ExactlyOneWrite ==
    (/\ PostProfileRun
     /\ wloc.bodyIn.kind = "object"
     /\ Qualifying(wloc.bodyIn.f) # {}) =>
      /\ Len(wcalls) = 1
      /\ wcalls[1].kind = "post_profile"
      /\ wcalls[1].payload = ExpectedPayload(wloc.bodyIn.f)
      /\ (wpc = "done") => (wrets = <<wres.rstatus>>)

C9_Witness ==
    /\ PostProfileRun /\ wpc = "done"
    /\ wrets = <<401>> /\ wres.status = 401
    /\ Len(wcalls) = 1
    /\ DOMAIN wcalls[1].payload = {"messaging_product", "about", "websites"}
    /\ wloc.bodyIn.f["websites"] = Arr(<<<<"https:", "//a.com">>, <<"http:", "//b.com">>,
                                         <<"https:", "//a.com">>>>)


\* C10: in every state of the page, the ChangeSet computeChanges returns (and
\* the one Save has stored) has its keys among about, description, address,
\* email, vertical, websites, and every scalar value in it is a string with a
\* character that is not whitespace.
GoodChangeSet(changes) ==
    /\ DOMAIN changes \subseteq
         {"about", "description", "address", "email", "vertical", "websites"}
    /\ \A k \in DOMAIN changes \ {"websites"} :
         /\ changes[k].t = "string"
         /\ \E i \in DOMAIN changes[k].s : changes[k].s[i] # " "

C10_ChangeSetKeysAndValues ==
    /\ GoodChangeSet(computeChanges(state, form).changes)
    /\ pendingPayload # Null => GoodChangeSet(pendingPayload)

C10_Witness ==
    /\ state.loaded
    /\ state.current["about"] = Str(<<"a">>)
    /\ form["about"] = <<" ">>
    /\ pendingPayload # Null
    /\ DOMAIN pendingPayload = {"email"}
    /\ pendingPayload["email"] = Str(<<"b">>)


\* The inputs hold what the load put into them.
Untouched ==
    /\ state.loaded
    /\ \A k \in ScalarKeySet : form[k] = InputValue(k, CurrentText(state.current, k))
    /\ state.websites = state.current["websites"].a

\* C11: whenever the page holds a loaded profile and the inputs still hold that
\* profile's values, computeChanges returns an empty ChangeSet and an empty
\* diff list.
C11_Idempotence == Untouched => computeChanges(state, form) = NoChanges

\* No value of the object p is an empty or whitespace-only string or an empty
\* array.
NoBlankValue(p) == \A k \in DOMAIN p : ~IsBlank(p[k])

\* The payload the worker forwards for the ChangeSet the page sends.
Forwarded(changes) == BuildPayload(JsonBody(changes).f)

\* C12: a scalar field whose input is empty or whitespace-only, and websites
\* when the edited list is empty, is neither in the ChangeSet nor in the
\* payload the worker forwards for it; the ChangeSet computed, the one stored
\* by Save, every update the page has sent, the payload the worker builds from
\* it and every payload the worker has written to the remote profile hold no
\* empty string, whitespace-only string or empty array.
C12_NeverBlank ==
    /\ LET changes == computeChanges(state, form).changes IN
         /\ \A k \in ScalarKeySet :
              Len(Trim(form[k])) = 0 =>
                k \notin DOMAIN changes /\ k \notin DOMAIN Forwarded(changes)
         /\ state.websites = <<>> =>
              "websites" \notin DOMAIN changes /\ "websites" \notin DOMAIN Forwarded(changes)
         /\ NoBlankValue(changes)
         /\ NoBlankValue(Forwarded(changes))
    /\ pendingPayload # Null => NoBlankValue(pendingPayload)
    /\ \A i \in Pending("save") :
         NoBlankValue(unet[i].body) /\ NoBlankValue(Forwarded(unet[i].body))
    /\ \A i \in DOMAIN wcalls :
         wcalls[i].kind = "post_profile" => NoBlankValue(wcalls[i].payload)

\* The baseline holds an about text, the input was emptied, and the update
\* sent carries another field only.
C12_Witness ==
    /\ state.loaded
    /\ state.current["about"] = Str(<<"a">>)
    /\ form["about"] = NoText
    /\ \E i \in Pending("save") : DOMAIN unet[i].body = {"vertical"}


\* The websites lists longer than two entries that begin with the list given.
LongerLists(sites) ==
    {q \in SeqsUpTo(Sites, MaxSites) : Len(q) > 2 /\ SubSeq(q, 1, Len(sites)) = sites}

\* C13: with a websites list of more than two entries proposed, computeChanges
\* puts exactly its first two entries, in order, under websites whenever it
\* puts websites in the ChangeSet, and the worker forwards those two; a request
\* body whose websites array has more than two entries is forwarded with
\* exactly its first two. The page never holds more than two websites, so
\* computeChanges is evaluated, in every loaded state that holds two, on
\* every longer list that begins with them.
C13_Truncation ==
    /\ (state.loaded /\ Len(state.websites) = 2) =>
         \A sites \in LongerLists(state.websites) :
           \A changes \in {computeChanges([state EXCEPT !.websites = sites], form).changes} :
             "websites" \in DOMAIN changes =>
               /\ changes["websites"] = Arr(<<sites[1], sites[2]>>)
               /\ Forwarded(changes)["websites"] = Arr(<<sites[1], sites[2]>>)
    /\ \A i \in DOMAIN wcalls :
         (/\ wcalls[i].kind = "post_profile"
          /\ wloc.bodyIn.f["websites"].t = "array"
          /\ Len(wloc.bodyIn.f["websites"].a) > 2) =>
           wcalls[i].payload["websites"] =
             Arr(<<wloc.bodyIn.f["websites"].a[1], wloc.bodyIn.f["websites"].a[2]>>)

\* A body with three websites has been forwarded with the first two.
C13_Witness ==
    /\ wpc = "post_profile"
    /\ wloc.bodyIn.f["websites"] =
         Arr(<<<<"http:", "//b.com">>, <<"https:", "//a.com">>, <<"https:", "//a.com">>>>)
    /\ wcalls[1].payload =
         ("messaging_product" :> Str(<<"whatsapp">>))
         @@ ("websites" :> Arr(<<<<"http:", "//b.com">>, <<"https:", "//a.com">>>>))


\* C14: in every state the page reaches, by load, add, pill edit, pill remove,
\* save, confirm or cancel, the edited websites list and the baseline websites
\* list each hold at most two entries.
C14_AtMostTwoWebsites ==
    /\ Len(state.websites) <= 2
    /\ Len(state.current["websites"].a) <= 2

\* Both lists are full, and a pill of the edited list has been rewritten.
C14_Witness ==
    /\ state.loaded
    /\ state.current["websites"].a = <<<<"https:", "//a.com">>, <<"http:", "//b.com">>>>
    /\ state.websites = <<<<"http:", "//b.com">>, <<"http:", "//b.com">>>>


\* The response names the phase of the upload call of this kind: the step
\* tag of the two first phases is the call's own name, and the third phase
\* needs a tag that is neither absent nor the name of another phase.
PhaseTagged(kind) ==
    IF kind = "apply" THEN wres.step \notin {"none", "create_upload", "upload_bytes"}
    ELSE wres.step = kind

\* C15: a POST /api/photo run in which the session-create, byte-upload or
\* profile-apply call returned a non-success status answers with that status,
\* carries the remote body and names the phase that failed.
C15_RemoteFailurePhaseTagged ==
    (PhotoRun /\ wpc = "done") =>
      \A i \in DOMAIN wrets :
        (IsUploadCall(wcalls[i]) /\ wrets[i] # 0 /\ ~Is2xx(wrets[i])) =>
          /\ wres.status = wrets[i]
          /\ wres.remote.kind # "none"
          /\ PhaseTagged(wcalls[i].kind)


\* C16: the inputs and buttons of the editor are enabled, an update is held
\* for confirmation, and a POST /api/profile or POST /api/photo of the page is
\* awaiting its answer, only when a load has succeeded (state.loaded, which
\* nothing resets).
C16_NoWriteBeforeLoad ==
    /\ editing => state.loaded
    /\ pendingPayload # Null => state.loaded
    /\ \A i \in DOMAIN unet : unet[i].kind \in {"save", "photo"} => state.loaded

\* After a load, an update and a photo request are both awaiting their answer.
C16_Witness ==
    /\ state.loaded
    /\ Pending("save") # {}
    /\ Pending("photo") # {}


\* This step puts one more profile update among the page's pending fetches.
UpdateSent ==
    /\ Len(unet') = Len(unet) + 1
    /\ unet'[Len(unet')].kind = "save"

\* C17: a step of the page sends a profile update only while the dialog is
\* open and holds a pending payload, and sends exactly that payload; the
\* pending payload is only ever set, by Save, to the ChangeSet computed in
\* that step together with the opening of the dialog, or cleared; whenever
\* the dialog closes (Cancel, Escape, or the answer to a confirmed update) the
\* pending payload is cleared, so that Confirm sends nothing until the next
\* Save.
C17_SendOnlyOnConfirm ==
    [][/\ UpdateSent =>
            /\ overlay.open
            /\ pendingPayload # Null
            /\ unet'[Len(unet')].body = pendingPayload
       /\ pendingPayload' # pendingPayload =>
            \/ pendingPayload' = Null
            \/ /\ ~overlay.open /\ overlay'.open
               /\ pendingPayload' = computeChanges(state, form).changes
               /\ DOMAIN pendingPayload' # {}
       /\ ~overlay'.open => pendingPayload' = Null
       /\ (overlay'.open /\ ~overlay.open) => pendingPayload' # pendingPayload
      ]_vars

\* A confirmed update is awaiting its answer and carries the payload the open
\* dialog holds.
C17_Witness ==
    /\ overlay.open
    /\ pendingPayload # Null
    /\ \E i \in Pending("save") : unet[i].body = pendingPayload


\* The worker, given this ChangeSet as the request body, forwards exactly the
\* ChangeSet and the messaging_product discriminator, and does not take a
\* ChangeSet that has a key for empty.
ServerAgrees(changes) ==
    /\ Forwarded(changes) = changes @@ ("messaging_product" :> Str(<<"whatsapp">>))
    /\ DOMAIN changes # {} => ~PayloadEmpty(Forwarded(changes))

\* C18: for the ChangeSet computeChanges yields in the page's state, for the
\* one Save has stored and for every one the page has sent, the payload the
\* worker builds from it is exactly the ChangeSet plus the discriminator, and
\* is not rejected as empty when the ChangeSet is not empty.
C18_ServerFilterAgrees ==
    /\ ServerAgrees(computeChanges(state, form).changes)
    /\ pendingPayload # Null => ServerAgrees(pendingPayload)
    /\ \A i \in Pending("save") : ServerAgrees(unet[i].body)

\* An update of two fields, one of them vertical, has been sent.
C18_Witness ==
    \E i \in Pending("save") :
      /\ DOMAIN unet[i].body = {"about", "vertical"}
      /\ DOMAIN Forwarded(unet[i].body) = {"about", "vertical", "messaging_product"}


\* The baseline's text of a scalar field, an absent value counting as the
\* empty string.
BaselineText(k) == IF state.current[k].t = "string" THEN state.current[k].s ELSE NoText

\* C19: after a load, each of about, description, address, email, vertical is
\* in the ChangeSet if and only if the proposed value, which is the input's
\* text trimmed, is not empty and differs from the baseline's value; the value
\* placed is that proposed value.
C19_ScalarInclusion ==
    state.loaded =>
      \A changes \in {computeChanges(state, form).changes} :
        \A k \in ScalarKeySet :
          /\ k \in DOMAIN changes <=>
               (Len(Trim(form[k])) > 0 /\ Trim(form[k]) # BaselineText(k))
          /\ k \in DOMAIN changes => changes[k] = Str(Trim(form[k]))

\* One field is proposed with the baseline's text and is left out, another
\* with a new text and is included.
C19_Witness ==
    /\ state.loaded
    /\ state.current["about"] = Str(<<"a">>)
    /\ form["about"] = <<"a">>
    /\ form["email"] = <<"b">>
    /\ DOMAIN computeChanges(state, form).changes = {"email"}


\* The keys of a ChangeSet in the order of the diff list: the scalar keys in
\* their fixed order, websites last.
DiffOrder(changes) ==
    LET Changed(k) == k \in DOMAIN changes
    IN  SelectSeq(ScalarKeys \o <<"websites">>, Changed)

\* The baseline of a key is empty: no text, or no website.
BaselineEmpty(k) ==
    IF k = "websites" THEN Len(state.current["websites"].a) = 0
    ELSE BaselineText(k) = NoText

\* The baseline of a key as the diff list shows it: the text, or the websites
\* joined.
BaselineShown(k) ==
    IF k = "websites" THEN Join(state.current["websites"].a) ELSE BaselineText(k)

\* The diff list has one entry per key of the ChangeSet, in the fixed order.
DiffKeysMatch(res) ==
    [i \in DOMAIN res.list |-> res.list[i].key] = DiffOrder(res.changes)

\* C20 as stated: the diff list has exactly one entry per key of the
\* ChangeSet, in the order about, description, address, email, vertical,
\* websites, and an entry's old value is the text "(empty)" exactly when the
\* baseline of its field was empty.
C20_MarkerExactlyWhenEmpty ==
    state.loaded =>
      \A res \in {computeChanges(state, form)} :
        /\ DiffKeysMatch(res)
        /\ \A i \in DOMAIN res.list :
             res.list[i].old = <<"(empty)">> <=> BaselineEmpty(res.list[i].key)

\* C20, amended: the diff list has exactly one entry per key of the
\* ChangeSet, in the order about, description, address, email, vertical,
\* websites, and an entry's old value is the text "(empty)" whenever the
\* baseline of its field was empty and the baseline's own value otherwise.
C20_DiffList ==
    state.loaded =>
      \A res \in {computeChanges(state, form)} :
        /\ DiffKeysMatch(res)
        /\ \A i \in DOMAIN res.list :
             res.list[i].old = IF BaselineEmpty(res.list[i].key) THEN <<"(empty)">>
                               ELSE BaselineShown(res.list[i].key)

\* Two entries, about before websites: about had no baseline text and shows
\* the marker, websites shows the baseline's list.
C20_Witness ==
    /\ state.loaded
    /\ state.current["about"] = Str(NoText)
    /\ state.current["websites"].a # <<>>
    /\ \E res \in {computeChanges(state, form)} :
         /\ Len(res.list) = 2
         /\ res.list[1].key = "about" /\ res.list[1].old = <<"(empty)">>
         /\ res.list[2].key = "websites" /\ res.list[2].old # <<"(empty)">>


\* The handle nested under data: the h of the first element of an array, or
\* the handle of an object; Undefined when there is none.
NestedHandle(data) ==
    CASE data.t = "objarray" /\ Len(data.a) > 0 /\ Len(data.a[1]) > 0 -> Str(data.a[1])
      [] data.t = "object" /\ Len(data.s) > 0 -> Str(data.s)
      [] OTHER -> Undefined

\* The first of the given shapes that holds a handle; Undefined when none does.
RECURSIVE FirstPresent(_)
FirstPresent(shapes) ==
    IF Len(shapes) = 0 THEN Undefined
    ELSE IF Head(shapes).t = "string" /\ Len(Head(shapes).s) > 0 THEN Head(shapes)
    ELSE FirstPresent(Tail(shapes))

\* The step that handles a successful byte-upload answer b takes the handle
\* the shapes yield and starts the profile-apply call with it, or, when they
\* yield none, makes no profile-apply call and ends the run as `failure` says.
HandleStep(b, shapes, failure) ==
    IF FirstPresent(shapes) # Undefined
    THEN /\ wpc' = "apply"
         /\ wloc'.handle = FirstPresent(shapes)
         /\ wcalls'[Len(wcalls')].kind = "apply"
         /\ wcalls'[Len(wcalls')].payload["profile_picture_handle"] = FirstPresent(shapes)
    ELSE /\ wcalls' = wcalls
         /\ failure

\* The Response of the missing-handle failure.
MissingHandleAnswer ==
    /\ wpc' = "done"
    /\ wres'.status = 502
    /\ wres'.step = "upload_bytes"
    /\ wres'.error = "No handle (h) in response"

UrlStructural == {":", "/", "?", "=", " ", ","}

\* The percent-encoded form of a character that has a meaning in a URL.
PercentForm(c) ==
    CASE c = ":" -> "%3A" [] c = "/" -> "%2F" [] c = "?" -> "%3F"
      [] c = "=" -> "%3D" [] c = " " -> "%20" [] c = "," -> "%2C"

\* The path segment of a call's URL after the Graph base holds this id,
\* percent-encoded.
AddressedEncoded(call, id) ==
    /\ Len(call.url) >= Len(GRAPH) + 1 + Len(id)
    /\ SubSeq(call.url, 1, Len(GRAPH) + 1) = GRAPH \o <<"/">>
    /\ \A j \in DOMAIN id :
         call.url[Len(GRAPH) + 1 + j] =
           IF id[j] \in UrlStructural THEN PercentForm(id[j]) ELSE id[j]

\* C22: the byte-upload call's URL is the Graph base followed by the session
\* id as the session-create answer gave it, token for token, and the call
\* carries the whole payload at offset 0; the session-create call is addressed
\* by the percent-encoded app id, and the profile-apply, profile-read and
\* profile-write calls by the percent-encoded phone id.
C22_RawSessionId ==
    \A i \in DOMAIN wcalls :
      /\ wcalls[i].kind = "upload_bytes" =>
           /\ wcalls[i].url = GRAPH \o <<"/">> \o wloc.rawId.s
           /\ wcalls[i].offset = "0"
           /\ wcalls[i].len = wloc.fileLength
      /\ wcalls[i].kind = "create_upload" => AddressedEncoded(wcalls[i], wenv.s)
      /\ wcalls[i].kind \in {"apply", "get_profile", "post_profile"} =>
           AddressedEncoded(wcalls[i], wreq.phoneId.s)

\* The three calls of a run: the app id and the phone id hold a structural
\* character and are percent-encoded, the session id holds three and is not.
C22_Witness ==
    /\ PhotoRun /\ wpc = "apply"
    /\ wenv = Str(<<"app", ":", "1">>)
    /\ wreq.phoneId = Str(<<"15", "/", "55">>)
    /\ SubSeq(wcalls[Len(wcalls) - 2].url, Len(GRAPH) + 2, Len(GRAPH) + 4) = <<"app", "%3A", "1">>
    /\ wcalls[Len(wcalls) - 1].url = GRAPH \o <<"/", "upload", ":", "MTph", "?", "sig", "=", "ARZ">>
    /\ SubSeq(wcalls[Len(wcalls)].url, Len(GRAPH) + 2, Len(GRAPH) + 4) = <<"15", "%2F", "55">>


\* The status the fetch that returns in this step returned.
Returned == wrets'[Len(wrets')]

\* Remote bodies that are not JSON.
NotJsonCreate == [kind |-> "unparsable", id |-> Undefined]
NotJsonBytes ==
    [kind |-> "unparsable", h |-> Undefined, handle |-> Undefined, data |-> Undefined,
     profile_picture_handle |-> Undefined]
NotJsonAck == [kind |-> "unparsable", success |-> Undefined]
NotJsonProfile ==
    [kind |-> "unparsable", hasData |-> FALSE, dataT |-> "none", elems |-> <<>>,
     f |-> EmptyProfile]

\* C23: a step that handles a remote answer whose body is not JSON, at any of
\* the five remote calls, raises nothing and is the step the handler takes
\* for the body {}; and a step that handles a session-create answer with a
\* success status and a body that is not JSON or has no string id makes no
\* further call and ends the run in failure, with the answer tagged
\* create_upload whenever the body is not the JSON value null.
C23_NotJsonIsEmptyObject ==
    [][/\ wpc = "create" =>
            /\ AfterCreate(Returned, NotJsonCreate) =>
                 wpc' # "threw" /\ AfterCreate(Returned, EmptyCreate)
            /\ Is2xx(Returned) =>
                 \A body \in CreateBodies :
                   (AfterCreate(Returned, body) /\ body.id.t # "string") =>
                     /\ wcalls' = wcalls
                     /\ RunFailed'
                     /\ body.kind # "null" =>
                          /\ wpc' = "done"
                          /\ wres'.step = "create_upload"
                          /\ wres'.status = 502
       /\ (wpc = "upload_bytes" /\ AfterBytes(Returned, NotJsonBytes)) =>
            wpc' # "threw" /\ AfterBytes(Returned, EmptyBytes)
       /\ (wpc = "apply" /\ AfterApply(Returned, NotJsonAck)) =>
            wpc' # "threw" /\ AfterApply(Returned, EmptyAck)
       /\ (wpc = "get_profile" /\ AfterRead(Returned, NotJsonProfile)) =>
            wpc' # "threw" /\ AfterRead(Returned, EmptyRaw)
       /\ (wpc = "post_profile" /\ AfterWrite(Returned, NotJsonAck)) =>
            wpc' # "threw" /\ AfterWrite(Returned, EmptyAck)
      ]_vars

\* The session-create call returned 201 with no usable id: the run has ended
\* with the 502 answer of the create_upload step, the call being the only one.
C23_Witness ==
    /\ PhotoRun /\ wpc = "done"
    /\ wrets = <<201>>
    /\ UploadKinds = <<"create_upload">>
    /\ wres.status = 502 /\ wres.step = "create_upload"
    /\ wres.error = "No id (UPLOAD_ID) in response"
    /\ wres.remote = EmptyCreate


\* C24: a step in which a confirmed update is answered with a success status
\* leaves the baseline holding the submitted value of every field of the
\* payload sent, and, when that payload is the ChangeSet of the inputs as
\* they stand, leaves nothing for another Save to send.
C24_BaselineFollowsUpdate ==
    [][\A i \in Pending("save"), status \in {200, 201} :
         SaveResponse(i, status) =>
           /\ \A k \in DOMAIN unet[i].body : state'.current[k] = unet[i].body[k]
           /\ unet[i].body = computeChanges(state, form).changes =>
                computeChanges(state', form') = NoChanges
      ]_vars


\* C25: no more than one profile update has been sent since the confirmation
\* dialog was last opened.
C25_OneUpdatePerDialog == overlay.sent <= 1


\* C26: a step that sends a profile update sends it with the phone id and the
\* token of the load that set the baseline.
C26_UpdateGoesToBaselineOwner ==
    [][UpdateSent =>
         /\ unet'[Len(unet')].phoneId = typed.owner.phoneId
         /\ unet'[Len(unet')].token = typed.owner.token
      ]_vars

=============================================================================
